---------------------------- MODULE Spec2Model ----------------------------
(***************************************************************************)
(* A model of the chat service: the S3 checkpoint store                    *)
(* (src/services/s3_memory_saver.py), the session cache, the rule matcher, *)
(* the conversation orchestrator and the history reconstructor             *)
(* (src/services/chat_service.py) and the two HTTP endpoints (main.py).    *)
(*                                                                         *)
(* Python strings are TLA+ strings; lists are sequences; dicts are records *)
(* or functions whose DOMAIN is the set of keys.  A coroutine runs         *)
(* atomically between two suspension points (an await on S3 I/O or on the  *)
(* workflow), so each action below is the code between two such points.    *)
(***************************************************************************)
EXTENDS Integers, Sequences, FiniteSets, TLC

VARIABLES
    store,           \* the S3 bucket: key -> [Body, LastModified]
    chat_histories,  \* ChatService.chat_histories: session id -> list of messages
    qa_pairs,        \* ChatService.qa_pairs, loaded once at startup
    now,             \* the wall clock read by datetime.now()
    ncalls,          \* number of process_chat calls started so far
    pc,              \* per request slot: where its process_chat coroutine is suspended
    request,         \* per request slot: the ChatRequest
    session_id,      \* per request slot: the local session_id
    state_in,        \* per request slot: the messages handed to workflow_app.ainvoke
    output,          \* per request slot: output["messages"] once it no longer is the cached list
    aliased,         \* per request slot: output["messages"] is the very list in chat_histories
    response,        \* per request slot: what the POST /chat endpoint answered last
    history,         \* what GET /chat/history/{thread_id} answered last
    checkpoint,      \* the last call of S3MemorySaver.get (or a direct put) and its outcome
    last_put,        \* session id -> the state handed to the last put that completed
    alone            \* per request slot: no other call on its session id has overlapped it

vars == <<store, chat_histories, qa_pairs, now, ncalls, pc, request, session_id,
          state_in, output, aliased, response, history, checkpoint, last_put,
          alone>>

(***************************************************************************)
(* Bounds of the model.                                                    *)
(***************************************************************************)
MaxCalls == 2       \* process_chat calls started in one behaviour of Spec
MaxTurns == 2       \* process_chat calls in one behaviour of SpecConversation
MaxClock == 1       \* the clock runs from 0 to MaxClock
MaxList == 2        \* longest message list put directly in SpecStore
MaxTicks == 3       \* the clock of SpecCleanup runs from 0 to MaxTicks
TicksPerDay == 2    \* clock ticks that make one day in SpecCleanup
MaxStored == 3      \* longest message list put directly in SpecHistory


None == "None"      \* Python's None where a string may stand (an absent thread_id)
NoneDict == <<>>    \* Python's None where a dict may stand: no keys, falsy

(***************************************************************************)
(* Python string operations.                                               *)
(***************************************************************************)
UpperCase == "ABCDEFGHIJKLMNOPQRSTUVWXYZ"
LowerCase == "abcdefghijklmnopqrstuvwxyz"
Whitespace == {" ", "\n", "\t", "\r"}

CharAt(s, i) == SubSeq(s, i, i)

\* one character of str.lower(): a table of the ASCII capitals
LowerMap ==
    [c \in {CharAt(UpperCase, i) : i \in 1..Len(UpperCase)} |->
        CharAt(LowerCase, CHOOSE j \in 1..Len(UpperCase) : CharAt(UpperCase, j) = c)]

LowerChar(c) == IF c \in DOMAIN LowerMap THEN LowerMap[c] ELSE c

RECURSIVE lower(_)
lower(s) == IF s = "" THEN "" ELSE LowerChar(Head(s)) \o lower(Tail(s))

\* Python's  sub in s
In(sub, s) ==
    \E i \in 1..(Len(s) - Len(sub) + 1) : SubSeq(s, i, i + Len(sub) - 1) = sub

RECURSIVE lstrip(_)
lstrip(s) == IF s # "" /\ Head(s) \in Whitespace THEN lstrip(Tail(s)) ELSE s

RECURSIVE rstrip(_)
rstrip(s) ==
    IF s # "" /\ CharAt(s, Len(s)) \in Whitespace
    THEN rstrip(SubSeq(s, 1, Len(s) - 1))
    ELSE s

strip(s) == lstrip(rstrip(s))

\* s.split(sep): the pieces between the non-overlapping occurrences of sep,
\* scanning from the left
RECURSIVE split(_, _)
split(s, sep) ==
    IF In(sep, s)
    THEN LET i == CHOOSE j \in 1..(Len(s) - Len(sep) + 1) :
                      /\ SubSeq(s, j, j + Len(sep) - 1) = sep
                      /\ \A k \in 1..(j - 1) : SubSeq(s, k, k + Len(sep) - 1) # sep
         IN  <<SubSeq(s, 1, i - 1)>> \o split(SubSeq(s, i + Len(sep), Len(s)), sep)
    ELSE <<s>>

\* sep.join(parts)
RECURSIVE join(_, _)
join(sep, parts) ==
    IF parts = <<>> THEN ""
    ELSE IF Len(parts) = 1 THEN parts[1]
    ELSE parts[1] \o sep \o join(sep, Tail(parts))

\* [f(p) for p in parts if keep(p)] with f = keep = strip
RECURSIVE StrippedNonEmpty(_)
StrippedNonEmpty(parts) ==
    IF parts = <<>> THEN <<>>
    ELSE IF strip(parts[1]) # ""
         THEN <<strip(parts[1])>> \o StrippedNonEmpty(Tail(parts))
         ELSE StrippedNonEmpty(Tail(parts))

\* a formatter that only trims the text
_format_response_trim_only(text) == strip(text)

\* ChatService._format_response
_format_response(text) == join("\n\n", StrippedNonEmpty(split(strip(text), "\n\n")))

(***************************************************************************)
(* Messages.  A message object is its class, its content and its           *)
(* additional_kwargs (always empty here).                                  *)
(***************************************************************************)
HumanMessage(content) ==
    [class |-> "HumanMessage", content |-> content, additional_kwargs |-> <<>>]

AIMessage(content) ==
    [class |-> "AIMessage", content |-> content, additional_kwargs |-> <<>>]

\* BaseMessage.type of the two classes
MessageType(class) == IF class = "HumanMessage" THEN "human" ELSE "ai"

Last(seq) == seq[Len(seq)]


(***************************************************************************)
(* The rule matcher, ChatService._call_model.                              *)
(***************************************************************************)
\* the dict literal of _call_model, in its declared order
topic_keywords == <<
    [topic |-> "business hours",
     keywords |-> <<"hour", "open", "close", "time", "operating", "when do you">>],
    [topic |-> "password reset",
     keywords |-> <<"password", "login", "account", "reset", "forgot",
                    "recover", "change", "update", "lost", "cant log", "can't log",
                    "how do i reset", "how to reset", "how can i reset">>],
    [topic |-> "payment methods",
     keywords |-> <<"pay", "payment", "credit card", "invoice", "method", "how to pay">>],
    [topic |-> "customer support",
     keywords |-> <<"contact", "support", "help", "email", "phone", "reach", "speak to">>],
    [topic |-> "refund policy",
     keywords |-> <<"refund", "return", "money back", "guarantee", "cancel",
                    "get money back">> ] >>

REFUSAL == "I can only answer questions about our business operations."

\* the pairs the first loop would return on: pair["question"].lower() in last_message
ExactMatch(i, last_message) == In(lower(qa_pairs[i].question), last_message)

\* a keyword test without the space padding: any(kw in last_message ...)
KeywordMatchSubstring(t, last_message) ==
    \E k \in 1..Len(topic_keywords[t].keywords) :
        In(topic_keywords[t].keywords[k], last_message)

\* any(f" {kw} " in f" {last_message} " for kw in keywords)
KeywordMatch(t, last_message) ==
    \E k \in 1..Len(topic_keywords[t].keywords) :
        In(" " \o topic_keywords[t].keywords[k] \o " ", " " \o last_message \o " ")

\* next((p for p in self.qa_pairs if topic in p["question"].lower()), None)
HasRelevantPair(t) ==
    \E i \in 1..Len(qa_pairs) : In(topic_keywords[t].topic, lower(qa_pairs[i].question))

RelevantPair(t) ==
    qa_pairs[CHOOSE i \in 1..Len(qa_pairs) :
                /\ In(topic_keywords[t].topic, lower(qa_pairs[i].question))
                /\ \A j \in 1..(i - 1) :
                       ~In(topic_keywords[t].topic, lower(qa_pairs[j].question))]

\* the second loop returns inside the first topic whose keywords match and
\* for which relevant_pair is not None
TopicReturns(t, last_message) == KeywordMatch(t, last_message) /\ HasRelevantPair(t)

\* a matcher that tries the topic keywords before the exact questions
AnswerKeywordsFirst(last_message) ==
    IF \E t \in 1..Len(topic_keywords) : TopicReturns(t, last_message)
    THEN RelevantPair(CHOOSE t \in 1..Len(topic_keywords) :
                         /\ TopicReturns(t, last_message)
                         /\ \A u \in 1..(t - 1) : ~TopicReturns(u, last_message)).answer
    ELSE IF \E i \in 1..Len(qa_pairs) : ExactMatch(i, last_message)
    THEN qa_pairs[CHOOSE i \in 1..Len(qa_pairs) :
                     /\ ExactMatch(i, last_message)
                     /\ \A j \in 1..(i - 1) : ~ExactMatch(j, last_message)].answer
    ELSE REFUSAL

\* a matcher whose second loop stops at the first topic whose keywords match
AnswerFirstTopicOnly(last_message) ==
    IF \E i \in 1..Len(qa_pairs) : ExactMatch(i, last_message)
    THEN qa_pairs[CHOOSE i \in 1..Len(qa_pairs) :
                     /\ ExactMatch(i, last_message)
                     /\ \A j \in 1..(i - 1) : ~ExactMatch(j, last_message)].answer
    ELSE IF \E t \in 1..Len(topic_keywords) : KeywordMatch(t, last_message)
    THEN LET t == CHOOSE t \in 1..Len(topic_keywords) :
                     /\ KeywordMatch(t, last_message)
                     /\ \A u \in 1..(t - 1) : ~KeywordMatch(u, last_message)
         IN  IF HasRelevantPair(t) THEN RelevantPair(t).answer ELSE REFUSAL
    ELSE REFUSAL

\* the content of the AIMessage _call_model appends
Answer(last_message) ==
    IF \E i \in 1..Len(qa_pairs) : ExactMatch(i, last_message)
    THEN qa_pairs[CHOOSE i \in 1..Len(qa_pairs) :
                     /\ ExactMatch(i, last_message)
                     /\ \A j \in 1..(i - 1) : ~ExactMatch(j, last_message)].answer
    ELSE IF \E t \in 1..Len(topic_keywords) : TopicReturns(t, last_message)
    THEN RelevantPair(CHOOSE t \in 1..Len(topic_keywords) :
                         /\ TopicReturns(t, last_message)
                         /\ \A u \in 1..(t - 1) : ~TopicReturns(u, last_message)).answer
    ELSE REFUSAL

\* a node that returns the reply alone instead of the extended list
_call_model_reply_only(messages) ==
    <<AIMessage(Answer(lower(Last(messages).content)))>>

_call_model(messages) ==
    messages \o <<AIMessage(Answer(lower(Last(messages).content)))>>

(***************************************************************************)
(* The checkpoint store, S3MemorySaver.                                    *)
(***************************************************************************)
\* MessageEncoder.default
MessageEncoder(obj) ==
    [_type |-> obj.class, content |-> obj.content,
     additional_kwargs |-> obj.additional_kwargs, type |-> MessageType(obj.class)]

\* json.dumps(data, cls=MessageEncoder) of the state dict handed to put
EncodeState(data) ==
    [messages |-> [i \in 1..Len(data.messages) |-> MessageEncoder(data.messages[i])],
     language |-> data.language]

\* a decoder that rebuilds every tagged dict as a HumanMessage
DeserializeMessageAsHuman(data) ==
    IF "_type" \in DOMAIN data
    THEN [class |-> "HumanMessage", content |-> data.content,
          additional_kwargs |-> data.additional_kwargs]
    ELSE data

\* S3MemorySaver._deserialize_messages on one dict of a message list
DeserializeMessage(data) ==
    IF "_type" \in DOMAIN data
    THEN IF data._type = "HumanMessage"
         THEN [class |-> "HumanMessage", content |-> data.content,
               additional_kwargs |-> data.additional_kwargs]
         ELSE IF data._type = "AIMessage"
         THEN [class |-> "AIMessage", content |-> data.content,
               additional_kwargs |-> data.additional_kwargs]
         ELSE data
    ELSE data

\* S3MemorySaver._deserialize_messages on the state dict
_deserialize_messages(data) ==
    [k \in DOMAIN data |->
        IF k = "messages"
        THEN [i \in 1..Len(data.messages) |-> DeserializeMessage(data.messages[i])]
        ELSE data[k]]

\* a key that is the same for every session
_get_s3_key_shared(sid) == "chat_histories/session.json"

_get_s3_key(sid) == "chat_histories/" \o sid \o ".json"

\* what S3MemorySaver.get returns when S3 answers: the decoded state, or None
\* on NoSuchKey
get(sid) ==
    IF _get_s3_key(sid) \in DOMAIN store
    THEN LET data == store[_get_s3_key(sid)].Body
         IN  IF "state" \in DOMAIN data
             THEN _deserialize_messages(data.state)
             ELSE _deserialize_messages(data)
    ELSE NoneDict

\* a put that appends the new messages to those of the record already there
put_appending(sid, data, metadata, new_versions) ==
    LET key == _get_s3_key(sid)
        old == IF key \in DOMAIN store THEN store[key].Body.state.messages ELSE <<>>
        save_data == [state |-> [messages |-> old \o EncodeState(data).messages,
                                 language |-> data.language],
                      metadata |-> metadata,
                      new_versions |-> new_versions,
                      last_updated |-> now]
    IN  [k \in DOMAIN store \cup {key} |->
            IF k = key THEN [Body |-> save_data, LastModified |-> now] ELSE store[k]]

\* a put that keeps the language of the record already there
put_keeping_language(sid, data, metadata, new_versions) ==
    LET key == _get_s3_key(sid)
        save_data == [state |-> [messages |-> EncodeState(data).messages,
                                 language |-> IF key \in DOMAIN store
                                              THEN store[key].Body.state.language
                                              ELSE data.language],
                      metadata |-> metadata,
                      new_versions |-> new_versions,
                      last_updated |-> now]
    IN  [k \in DOMAIN store \cup {key} |->
            IF k = key THEN [Body |-> save_data, LastModified |-> now] ELSE store[k]]

\* the bucket after S3MemorySaver.put succeeded
put(sid, data, metadata, new_versions) ==
    LET save_data == [state |-> EncodeState(data),
                      metadata |-> metadata,
                      new_versions |-> new_versions,
                      last_updated |-> now]
        key == _get_s3_key(sid)
    IN  [k \in DOMAIN store \cup {key} |->
            IF k = key THEN [Body |-> save_data, LastModified |-> now] ELSE store[k]]


(***************************************************************************)
(* Inputs.                                                                 *)
(***************************************************************************)
Reqs == {1, 2}                       \* request slots: calls that may overlap
Messages == {"What are your business hours?", "Hello"}
Languages == {"English"}
ThreadIds == {None, "s1"}            \* ChatRequest.thread_id: absent or given
HistoryIds == {"s1"}                 \* thread ids asked of the history endpoint

\* knowledge_base/qa_pairs.json as loaded by ChatService.create; the file is
\* data outside the code, so the tables are inputs
KnowledgeBase == <<
    [question |-> "What are your business hours?", answer |-> "We are open 9am-5pm."],
    [question |-> "What is your refund policy?", answer |-> "Refunds within 30 days."] >>

\* a table whose questions overlap and whose answers carry blank lines
LooseTable == <<
    [question |-> "Refund", answer |-> "  First.\n\n\n\nSecond. \n"],
    [question |-> "refund policy", answer |-> "Other."],
    [question |-> "Payment methods", answer |-> "Card or invoice."] >>

\* a table that names no topic label but "payment methods"
SparseTable == <<
    [question |-> "How do I reset my password?", answer |-> "Use the reset link."],
    [question |-> "Which payment methods do you accept?", answer |-> "Card."] >>

QATables == {KnowledgeBase, LooseTable, SparseTable}

\* the messages of one client's conversation
ChatMessages == {"What are your business hours?", "refund policy", "When do you open",
                 "I forgot how to pay", "Hello", "open?"}

NoRequest == [message |-> "", language |-> "", thread_id |-> None]
NoResponse == [status |-> 0, response |-> "", language |-> "", timestamp |-> 0]
NoHistory == [thread_id |-> None, status |-> 0, messages |-> <<>>, language |-> "",
              s3 |-> "", again |-> FALSE]
NoCheckpoint == [session_id |-> None, op |-> "", raised |-> FALSE, value |-> NoneDict]

(***************************************************************************)
(* Session ids: ChatService._generate_session_id.                          *)
(***************************************************************************)
\* hash(message) % (2**32): Python's str hash is keyed per process; this is a
\* fixed stand-in (a polynomial hash over the character positions in Alphabet,
\* modulo 2**32)
Alphabet == " ?.,!-'0123456789" \o LowerCase \o UpperCase

OrdMap ==
    [c \in {CharAt(Alphabet, i) : i \in 1..Len(Alphabet)} |->
        CHOOSE i \in 1..Len(Alphabet) : CharAt(Alphabet, i) = c]

Ord(c) == IF c \in DOMAIN OrdMap THEN OrdMap[c] ELSE 0

\* the 32-bit value is kept as two 16-bit halves <<high, low>>
RECURSIVE hash(_)
hash(message) ==
    IF message = "" THEN <<0, 0>>
    ELSE LET h == hash(SubSeq(message, 1, Len(message) - 1))
             low == 31 * h[2] + Ord(CharAt(message, Len(message)))
         IN  <<(31 * h[1] + (low \div 65536)) % 65536, low % 65536>>

\* format(n, '08x')
RECURSIVE Hex(_, _)
Hex(n, digits) ==
    IF digits = 0 THEN ""
    ELSE Hex(n \div 16, digits - 1) \o CharAt("0123456789abcdef", (n % 16) + 1)

\* datetime.now().strftime('%Y%m%d%H%M%S'): 14 digits; the clock value, zero padded
RECURSIVE Digits(_, _)
Digits(n, digits) ==
    IF digits = 0 THEN ""
    ELSE Digits(n \div 10, digits - 1) \o CharAt("0123456789", (n % 10) + 1)

_generate_session_id(message) ==
    Digits(now, 14) \o "-" \o Hex(hash(message)[1], 4) \o Hex(hash(message)[2], 4)

\* a resolution that generates an id only when thread_id is None
ResolveSessionIdUnlessNone(req) ==
    IF req.thread_id # None
    THEN req.thread_id
    ELSE _generate_session_id(req.message)

\* request.thread_id or self._generate_session_id(request.message)
ResolveSessionId(req) ==
    IF req.thread_id \notin {None, ""}
    THEN req.thread_id
    ELSE _generate_session_id(req.message)

(***************************************************************************)
(* The session cache and the orchestrator: ChatService.process_chat.       *)
(***************************************************************************)
\* self.chat_histories[sid] = value
SetHistory(sid, value) ==
    [k \in DOMAIN chat_histories \cup {sid} |->
        IF k = sid THEN value ELSE chat_histories[k]]

\* output["messages"] as request r sees it
Output(r) == IF aliased[r] THEN chat_histories[session_id[r]] ELSE output[r]

\* A request whose output list is the cached list of sid keeps that list when
\* the cache entry is rebound to another list
Unalias(sid, r) ==
    /\ output' = [q \in Reqs |->
                    IF q # r /\ aliased[q] /\ session_id[q] = sid
                    THEN chat_histories[sid] ELSE output[q]]
    /\ aliased' = [q \in Reqs |->
                    IF q # r /\ session_id[q] = sid THEN FALSE ELSE aliased[q]]

Finish(r, resp) ==
    /\ response' = [response EXCEPT ![r] = resp]
    /\ pc' = [pc EXCEPT ![r] = "idle"]
    /\ request' = [request EXCEPT ![r] = NoRequest]
    /\ session_id' = [session_id EXCEPT ![r] = None]
    /\ state_in' = [state_in EXCEPT ![r] = <<>>]
    /\ output' = [output EXCEPT ![r] = <<>>]
    /\ aliased' = [aliased EXCEPT ![r] = FALSE]
    /\ alone' = [alone EXCEPT ![r] = FALSE]
    /\ checkpoint' = NoCheckpoint

\* main.chat: any exception of process_chat becomes HTTP 500
HTTP500 == [NoResponse EXCEPT !.status = 500]

\* a process_chat that asks the store for the session on every call
StartAlwaysLoads(r, req, limit) ==
    LET sid == ResolveSessionId(req) IN
    /\ pc[r] = "idle"
    /\ \A q \in Reqs : q < r => pc[q] # "idle"
    /\ ncalls < limit
    /\ ncalls' = ncalls + 1
    /\ request' = [request EXCEPT ![r] = req]
    /\ session_id' = [session_id EXCEPT ![r] = sid]
    /\ response' = [response EXCEPT ![r] = NoResponse]
    /\ history' = NoHistory
    /\ alone' = [q \in Reqs |->
                    IF q = r THEN \A o \in Reqs \ {r} : session_id[o] # sid
                    ELSE alone[q] /\ session_id[q] # sid]
    /\ pc' = [pc EXCEPT ![r] = "get"]
    /\ UNCHANGED <<chat_histories, state_in>>
    /\ UNCHANGED <<store, qa_pairs, now, output, aliased, checkpoint, last_put>>

\* process_chat up to its first suspension, in the lowest free slot.  On a cache hit
\* get_or_create_chat_history returns the cached list without suspending, the
\* human message is appended to that very list and the workflow is invoked.
\* On a miss the coroutine suspends in self.memory.get.
Start(r, req, limit) ==
    LET sid == ResolveSessionId(req) IN
    /\ pc[r] = "idle"
    /\ \A q \in Reqs : q < r => pc[q] # "idle"
    /\ ncalls < limit
    /\ ncalls' = ncalls + 1
    /\ request' = [request EXCEPT ![r] = req]
    /\ session_id' = [session_id EXCEPT ![r] = sid]
    /\ response' = [response EXCEPT ![r] = NoResponse]
    /\ history' = NoHistory
    /\ alone' = [q \in Reqs |->
                    IF q = r THEN \A o \in Reqs \ {r} : session_id[o] # sid
                    ELSE alone[q] /\ session_id[q] # sid]
    /\ IF sid \in DOMAIN chat_histories
       THEN /\ chat_histories' = [chat_histories EXCEPT
                                    ![sid] = Append(@, HumanMessage(req.message))]
            /\ state_in' = [state_in EXCEPT ![r] = chat_histories'[sid]]
            /\ pc' = [pc EXCEPT ![r] = "invoke"]
       ELSE /\ pc' = [pc EXCEPT ![r] = "get"]
            /\ UNCHANGED <<chat_histories, state_in>>
    /\ UNCHANGED <<store, qa_pairs, now, output, aliased, checkpoint, last_put>>

\* get_or_create_chat_history binds the cache entry to the list it loaded and
\* returns it; process_chat appends the human message and invokes the workflow
Seed(r, loaded) ==
    LET sid == session_id[r]
        chat_history == Append(loaded, HumanMessage(request[r].message))
    IN
    /\ chat_histories' = SetHistory(sid, chat_history)
    /\ Unalias(sid, r)
    /\ state_in' = [state_in EXCEPT ![r] = chat_history]
    /\ pc' = [pc EXCEPT ![r] = "invoke"]
    /\ history' = NoHistory
    /\ UNCHANGED <<store, qa_pairs, now, ncalls, request, session_id, response,
                   last_put, alone>>

\* a load that seeds the empty list whatever the store returned
LoadCheckpointIgnoringRecord(r) ==
    /\ pc[r] = "get"
    /\ Seed(r, <<>>)
    /\ checkpoint' = [session_id |-> session_id[r], op |-> "get",
                      raised |-> FALSE, value |-> get(session_id[r])]

\* self.memory.get returns: the stored messages when the checkpoint is a dict
\* with "messages", else the empty list
LoadCheckpoint(r) ==
    /\ pc[r] = "get"
    /\ LET ckpt == get(session_id[r])
       IN  /\ Seed(r, IF DOMAIN ckpt # {} /\ "messages" \in DOMAIN ckpt
                      THEN ckpt.messages
                      ELSE <<>>)
           /\ checkpoint' = [session_id |-> session_id[r], op |-> "get",
                             raised |-> FALSE, value |-> ckpt]

\* a load whose failure reaches main.chat
LoadRaisesPropagates(r) ==
    /\ pc[r] = "get"
    /\ Finish(r, HTTP500)
    /\ history' = NoHistory
    /\ UNCHANGED <<store, chat_histories, qa_pairs, now, ncalls, last_put>>

\* self.memory.get raises: the except clause seeds the empty list
LoadRaises(r) ==
    /\ pc[r] = "get"
    /\ Seed(r, <<>>)
    /\ checkpoint' = [session_id |-> session_id[r], op |-> "get",
                      raised |-> TRUE, value |-> NoneDict]

\* workflow_app.ainvoke returns: the single node _call_model ran on the
\* messages handed in; the cache entry is rebound to the output list and
\* _save_checkpoint suspends in self.memory.put.
Invoke(r) ==
    LET sid == session_id[r]
        out == _call_model(state_in[r])
    IN
    /\ pc[r] = "invoke"
    /\ chat_histories' = SetHistory(sid, out)
    /\ output' = [q \in Reqs |->
                    IF q # r /\ aliased[q] /\ session_id[q] = sid
                    THEN chat_histories[sid] ELSE output[q]]
    /\ aliased' = [q \in Reqs |->
                    IF q = r THEN TRUE
                    ELSE IF session_id[q] = sid THEN FALSE ELSE aliased[q]]
    /\ pc' = [pc EXCEPT ![r] = "put"]
    /\ history' = NoHistory
    /\ UNCHANGED <<store, qa_pairs, now, ncalls, request, session_id, state_in,
                   response, checkpoint, last_put, alone>>

\* a failure path that saves the messages handed to the workflow before
\* re-raising
InvokeRaisesAfterSaving(r) ==
    /\ pc[r] = "invoke"
    /\ store' = put(session_id[r],
                    [messages |-> state_in[r], language |-> request[r].language],
                    [timestamp |-> now, language |-> request[r].language],
                    [messages |-> Len(state_in[r])])
    /\ Finish(r, HTTP500)
    /\ history' = NoHistory
    /\ UNCHANGED <<chat_histories, qa_pairs, now, ncalls, last_put>>

\* a failure path that takes the human message off the cached list again
InvokeRaisesRollsBack(r) ==
    /\ pc[r] = "invoke"
    /\ chat_histories' =
           [chat_histories EXCEPT ![session_id[r]] = SubSeq(@, 1, Len(@) - 1)]
    /\ Finish(r, HTTP500)
    /\ history' = NoHistory
    /\ UNCHANGED <<store, qa_pairs, now, ncalls, last_put>>

\* workflow_app.ainvoke raises: process_chat re-raises, nothing is undone
InvokeRaises(r) ==
    /\ pc[r] = "invoke"
    /\ Finish(r, HTTP500)
    /\ history' = NoHistory
    /\ UNCHANGED <<store, chat_histories, qa_pairs, now, ncalls, last_put>>

\* _save_checkpoint: the arguments of self.memory.put
_save_checkpoint(sid, messages, language) ==
    put(sid,
        [messages |-> messages, language |-> language],
        [timestamp |-> now, language |-> language],
        [messages |-> Len(messages)])

\* self.memory.put returns: the object is written and process_chat answers
\* with the formatted content of the last message of output["messages"]
Put(r) ==
    /\ pc[r] = "put"
    /\ store' = _save_checkpoint(session_id[r], Output(r), request[r].language)
    /\ last_put' = [k \in DOMAIN last_put \cup {session_id[r]} |->
                        IF k = session_id[r]
                        THEN [messages |-> Output(r), language |-> request[r].language]
                        ELSE last_put[k]]
    /\ Finish(r, [status |-> 200,
                  response |-> _format_response(Last(Output(r)).content),
                  language |-> request[r].language,
                  timestamp |-> now])
    /\ history' = NoHistory
    /\ UNCHANGED <<chat_histories, qa_pairs, now, ncalls>>

\* a failure path that drops the session's cache entry before re-raising
PutRaisesAndEvicts(r) ==
    /\ pc[r] = "put"
    /\ chat_histories' = [k \in DOMAIN chat_histories \ {session_id[r]} |->
                             chat_histories[k]]
    /\ Finish(r, HTTP500)
    /\ history' = NoHistory
    /\ UNCHANGED <<store, qa_pairs, now, ncalls, last_put>>

\* self.memory.put raises: nothing is written, the exception reaches main.chat
PutRaises(r) ==
    /\ pc[r] = "put"
    /\ Finish(r, HTTP500)
    /\ history' = NoHistory
    /\ UNCHANGED <<store, chat_histories, qa_pairs, now, ncalls, last_put>>


(***************************************************************************)
(* The history reconstructor, ChatService.get_chat_history, behind         *)
(* GET /chat/history/{thread_id} (main.get_chat_history).                  *)
(***************************************************************************)
\* Message(content=..., role=..., timestamp=current_time)
Message(content, role, timestamp) ==
    [content |-> content, role |-> role, timestamp |-> timestamp]

\* a loop that returns whole pairs only
RECURSIVE ReconstructPairsOnly(_, _, _)
ReconstructPairsOnly(msg_list, i, current_time) ==
    IF i + 1 > Len(msg_list) THEN <<>>
    ELSE IF msg_list[i].class # "HumanMessage"
         THEN ReconstructPairsOnly(msg_list, i + 2, current_time)
         ELSE <<Message(msg_list[i].content, "human", current_time),
                Message(msg_list[i + 1].content, "assistant", current_time)>>
              \o ReconstructPairsOnly(msg_list, i + 2, current_time)

\* the loop  for i in range(0, len(msg_list), 2)  from index i (1-based here)
RECURSIVE Reconstruct(_, _, _)
Reconstruct(msg_list, i, current_time) ==
    IF i > Len(msg_list) THEN <<>>
    ELSE IF msg_list[i].class # "HumanMessage"
         THEN Reconstruct(msg_list, i + 2, current_time)
         ELSE <<Message(msg_list[i].content, "human", current_time)>>
              \o (IF i + 1 <= Len(msg_list)
                  THEN <<Message(msg_list[i + 1].content, "assistant", current_time)>>
                  ELSE <<>>)
              \o Reconstruct(msg_list, i + 2, current_time)

\* checkpoint.get("metadata", {}).get("language", "English")
HistoryLanguage(ckpt) ==
    IF "metadata" \in DOMAIN ckpt
    THEN IF "language" \in DOMAIN ckpt.metadata
         THEN ckpt.metadata.language
         ELSE "English"
    ELSE "English"

\* a reconstructor that treats a record older than the clock as expired
get_chat_history_expiring(thread_id, ckpt) ==
    IF DOMAIN ckpt = {} \/ "messages" \notin DOMAIN ckpt
       \/ store[_get_s3_key(thread_id)].LastModified < now
    THEN [thread_id |-> thread_id, messages |-> <<>>, language |-> "English"]
    ELSE [thread_id |-> thread_id,
          messages |-> Reconstruct(ckpt.messages, 1, now),
          language |-> HistoryLanguage(ckpt)]

\* the ChatHistoryResponse of get_chat_history when self.memory.get returned ckpt
get_chat_history(thread_id, ckpt) ==
    IF DOMAIN ckpt = {} \/ "messages" \notin DOMAIN ckpt
    THEN [thread_id |-> thread_id, messages |-> <<>>, language |-> "English"]
    ELSE [thread_id |-> thread_id,
          messages |-> Reconstruct(ckpt.messages, 1, now),
          language |-> HistoryLanguage(ckpt)]

\* an endpoint that answers 200 whatever the message list
HistoryStatusAlwaysOk(resp) == 200

\* main.get_chat_history: 404 on an empty message list, else the response
HistoryStatus(resp) == IF resp.messages = <<>> THEN 404 ELSE 200

\* a read path that serves a cached session from the cache
GetHistoryFromCache(thread_id) ==
    LET resp == IF thread_id \in DOMAIN chat_histories
                THEN get_chat_history(thread_id,
                                      [messages |-> chat_histories[thread_id],
                                       language |-> "English"])
                ELSE get_chat_history(thread_id, get(thread_id)) IN
    /\ history' = [thread_id |-> thread_id,
                   status |-> HistoryStatus(resp),
                   messages |-> resp.messages,
                   language |-> resp.language,
                   s3 |-> IF _get_s3_key(thread_id) \in DOMAIN store
                          THEN "ok" ELSE "NoSuchKey",
                   again |-> history.thread_id = thread_id /\ history.status # 500]
    /\ UNCHANGED <<store, chat_histories, qa_pairs, now, ncalls, pc, request,
                   session_id, state_in, output, aliased, response, checkpoint,
                   last_put, alone>>

\* GET /chat/history/{thread_id} when S3 answers (with the object or NoSuchKey)
\* (again: the response before this one was a read of the same thread that the
\* store answered)
GetHistory(thread_id) ==
    LET resp == get_chat_history(thread_id, get(thread_id)) IN
    /\ history' = [thread_id |-> thread_id,
                   status |-> HistoryStatus(resp),
                   messages |-> resp.messages,
                   language |-> resp.language,
                   s3 |-> IF _get_s3_key(thread_id) \in DOMAIN store
                          THEN "ok" ELSE "NoSuchKey",
                   again |-> history.thread_id = thread_id /\ history.status # 500]
    /\ UNCHANGED <<store, chat_histories, qa_pairs, now, ncalls, pc, request,
                   session_id, state_in, output, aliased, response, checkpoint,
                   last_put, alone>>

\* a read path that swallows the failure of self.memory.get into an empty
\* transcript
GetHistorySwallows(thread_id) ==
    /\ history' = [thread_id |-> thread_id, status |-> 404, messages |-> <<>>,
                   language |-> "English", s3 |-> "error", again |-> FALSE]
    /\ UNCHANGED <<store, chat_histories, qa_pairs, now, ncalls, pc, request,
                   session_id, state_in, output, aliased, response, checkpoint,
                   last_put, alone>>

\* GET /chat/history/{thread_id} when self.memory.get raises: get_chat_history
\* re-raises and main.get_chat_history answers 500
GetHistoryRaises(thread_id) ==
    /\ history' = [thread_id |-> thread_id, status |-> 500, messages |-> <<>>,
                   language |-> "", s3 |-> "error", again |-> FALSE]
    /\ UNCHANGED <<store, chat_histories, qa_pairs, now, ncalls, pc, request,
                   session_id, state_in, output, aliased, response, checkpoint,
                   last_put, alone>>

\* time passes
Tick ==
    /\ now < MaxClock
    /\ now' = now + 1
    /\ UNCHANGED <<store, chat_histories, qa_pairs, ncalls, pc, request, session_id,
                   state_in, output, aliased, response, history, checkpoint,
                   last_put, alone>>

(***************************************************************************)
(* The service: overlapping POST /chat calls, history reads, S3 failures.  *)
(***************************************************************************)
Init ==
    /\ store = <<>>
    /\ chat_histories = <<>>
    /\ qa_pairs = KnowledgeBase
    /\ now = 0
    /\ ncalls = 0
    /\ pc = [r \in Reqs |-> "idle"]
    /\ request = [r \in Reqs |-> NoRequest]
    /\ session_id = [r \in Reqs |-> None]
    /\ state_in = [r \in Reqs |-> <<>>]
    /\ output = [r \in Reqs |-> <<>>]
    /\ aliased = [r \in Reqs |-> FALSE]
    /\ response = [r \in Reqs |-> NoResponse]
    /\ history = NoHistory
    /\ checkpoint = NoCheckpoint
    /\ last_put = <<>>
    /\ alone = [r \in Reqs |-> FALSE]

Next ==
    \/ \E r \in Reqs, m \in Messages, l \in Languages, t \in ThreadIds :
          Start(r, [message |-> m, language |-> l, thread_id |-> t], MaxCalls)
    \/ \E r \in Reqs : LoadCheckpoint(r)
    \/ \E r \in Reqs : LoadRaises(r)
    \/ \E r \in Reqs : Invoke(r)
    \/ \E r \in Reqs : InvokeRaises(r)
    \/ \E r \in Reqs : Put(r)
    \/ \E r \in Reqs : PutRaises(r)
    \/ \E t \in HistoryIds : GetHistory(t)
    \/ \E t \in HistoryIds : GetHistoryRaises(t)

Spec == Init /\ [][Next]_vars

(***************************************************************************)
(* One client's conversation: calls on one thread, one after the other,    *)
(* none failing; history reads (which may fail); time passing; any of the  *)
(* knowledge bases.                                                        *)
(***************************************************************************)
InitConversation ==
    /\ store = <<>>
    /\ chat_histories = <<>>
    /\ qa_pairs \in QATables
    /\ now = 0
    /\ ncalls = 0
    /\ pc = [r \in Reqs |-> "idle"]
    /\ request = [r \in Reqs |-> NoRequest]
    /\ session_id = [r \in Reqs |-> None]
    /\ state_in = [r \in Reqs |-> <<>>]
    /\ output = [r \in Reqs |-> <<>>]
    /\ aliased = [r \in Reqs |-> FALSE]
    /\ response = [r \in Reqs |-> NoResponse]
    /\ history = NoHistory
    /\ checkpoint = NoCheckpoint
    /\ last_put = <<>>
    /\ alone = [r \in Reqs |-> FALSE]

NextConversation ==
    \/ \E m \in ChatMessages :
          Start(1, [message |-> m, language |-> "English", thread_id |-> "s1"], MaxTurns)
    \/ LoadCheckpoint(1)
    \/ Invoke(1)
    \/ Put(1)
    \/ GetHistory("s1")
    \/ GetHistoryRaises("s1")
    \/ Tick

SpecConversation == InitConversation /\ [][NextConversation]_vars

(***************************************************************************)
(* The checkpoint store on its own: put and get called directly with any   *)
(* state.                                                                  *)
(***************************************************************************)
StoreIds == {"s1", "s2"}
StoreLanguages == {"English", "French"}
StoreMessages == {HumanMessage("Hi"), AIMessage("ok")}

RECURSIVE Lists(_)
Lists(n) ==
    IF n = 0 THEN {<<>>}
    ELSE Lists(n - 1) \cup
         {Append(l, m) : l \in {k \in Lists(n - 1) : Len(k) = n - 1}, m \in StoreMessages}

\* await memory.put(sid, data, metadata, new_versions) returns
DirectPut(sid, data) ==
    /\ store' = put(sid, data, [timestamp |-> now, language |-> data.language],
                    [messages |-> Len(data.messages)])
    /\ last_put' = [k \in DOMAIN last_put \cup {sid} |->
                        IF k = sid THEN data ELSE last_put[k]]
    /\ checkpoint' = NoCheckpoint
    /\ history' = NoHistory
    /\ UNCHANGED <<chat_histories, qa_pairs, now, ncalls, pc, request, session_id,
                   state_in, output, aliased, response, alone>>

\* await memory.put(...) raises
DirectPutRaises(sid) ==
    /\ checkpoint' = [session_id |-> sid, op |-> "put", raised |-> TRUE, value |-> NoneDict]
    /\ UNCHANGED <<store, chat_histories, qa_pairs, now, ncalls, pc, request,
                   session_id, state_in, output, aliased, response, history, last_put, alone>>

\* await memory.get(sid) returns
DirectGet(sid) ==
    /\ checkpoint' = [session_id |-> sid, op |-> "get", raised |-> FALSE, value |-> get(sid)]
    /\ UNCHANGED <<store, chat_histories, qa_pairs, now, ncalls, pc, request,
                   session_id, state_in, output, aliased, response, history, last_put, alone>>

\* await memory.get(sid) raises (a ClientError other than NoSuchKey)
DirectGetRaises(sid) ==
    /\ checkpoint' = [session_id |-> sid, op |-> "get", raised |-> TRUE, value |-> NoneDict]
    /\ UNCHANGED <<store, chat_histories, qa_pairs, now, ncalls, pc, request,
                   session_id, state_in, output, aliased, response, history, last_put, alone>>

NextStore ==
    \/ \E sid \in StoreIds, l \in Lists(MaxList), lang \in StoreLanguages :
          DirectPut(sid, [messages |-> l, language |-> lang])
    \/ \E sid \in StoreIds : DirectPutRaises(sid)
    \/ \E sid \in StoreIds : DirectGet(sid)
    \/ \E sid \in StoreIds : DirectGetRaises(sid)

SpecStore == Init /\ [][NextStore]_vars

(***************************************************************************)
(* S3MemorySaver.cleanup_old_sessions, with records put and time passing.  *)
(* The clock counts ticks, TicksPerDay of them to a day.                   *)
(***************************************************************************)
MaxAgeDays == {0, 1}                 \* values of max_age_days

EndsWith(s, suffix) ==
    Len(s) >= Len(suffix) /\ SubSeq(s, Len(s) - Len(suffix) + 1, Len(s)) = suffix

\* (current_time - obj['LastModified']).days: whole days, rounded down
AgeInDays(key) == (now - store[key].LastModified) \div TicksPerDay

\* the keys the scan deletes
Expired(max_age_days) ==
    {key \in DOMAIN store :
        /\ SubSeq(key, 1, Len("chat_histories/")) = "chat_histories/"
        /\ EndsWith(key, ".json")
        /\ AgeInDays(key) > max_age_days}

\* await memory.cleanup_old_sessions(max_age_days) returns
Cleanup(max_age_days) ==
    /\ store' = [key \in DOMAIN store \ Expired(max_age_days) |-> store[key]]
    /\ checkpoint' = [session_id |-> None, op |-> "cleanup", raised |-> FALSE,
                      value |-> [max_age_days |-> max_age_days, current_time |-> now]]
    /\ UNCHANGED <<chat_histories, qa_pairs, now, ncalls, pc, request, session_id,
                   state_in, output, aliased, response, history, last_put, alone>>

\* await memory.cleanup_old_sessions(max_age_days) raises: the scan stopped
\* after deleting some of the expired records
CleanupRaises(max_age_days) ==
    /\ \E deleted \in SUBSET Expired(max_age_days) :
           store' = [key \in DOMAIN store \ deleted |-> store[key]]
    /\ checkpoint' = [session_id |-> None, op |-> "cleanup", raised |-> TRUE,
                      value |-> [max_age_days |-> max_age_days, current_time |-> now]]
    /\ UNCHANGED <<chat_histories, qa_pairs, now, ncalls, pc, request, session_id,
                   state_in, output, aliased, response, history, last_put, alone>>

\* time passes, a tick at a time
Elapse ==
    /\ now < MaxTicks
    /\ now' = now + 1
    /\ UNCHANGED <<store, chat_histories, qa_pairs, ncalls, pc, request, session_id,
                   state_in, output, aliased, response, history, checkpoint,
                   last_put, alone>>

NextCleanup ==
    \/ \E sid \in StoreIds :
          DirectPut(sid, [messages |-> <<HumanMessage("Hi"), AIMessage("ok")>>,
                          language |-> "English"])
    \/ \E d \in MaxAgeDays : Cleanup(d)
    \/ \E d \in MaxAgeDays : CleanupRaises(d)
    \/ Elapse

SpecCleanup == Init /\ [][NextCleanup]_vars

(***************************************************************************)
(* One client after the other against a service that may be restarted:     *)
(* requests in any language, with a thread id, an empty one or none; the    *)
(* load of a session may fail; no call overlaps another.                   *)
(***************************************************************************)
RequestThreadIds == {None, "", "s1"}
RequestMessages == {"Hello", "refund policy"}

\* the process is started again: ChatService.__init__ leaves the cache empty
Restart ==
    /\ \A r \in Reqs : pc[r] = "idle"
    /\ chat_histories # <<>>
    /\ chat_histories' = <<>>
    /\ history' = NoHistory
    /\ UNCHANGED <<store, qa_pairs, now, ncalls, pc, request, session_id, state_in,
                   output, aliased, response, checkpoint, last_put, alone>>

InitRequests ==
    /\ store = <<>>
    /\ chat_histories = <<>>
    /\ qa_pairs = LooseTable
    /\ now = 0
    /\ ncalls = 0
    /\ pc = [r \in Reqs |-> "idle"]
    /\ request = [r \in Reqs |-> NoRequest]
    /\ session_id = [r \in Reqs |-> None]
    /\ state_in = [r \in Reqs |-> <<>>]
    /\ output = [r \in Reqs |-> <<>>]
    /\ aliased = [r \in Reqs |-> FALSE]
    /\ response = [r \in Reqs |-> NoResponse]
    /\ history = NoHistory
    /\ checkpoint = NoCheckpoint
    /\ last_put = <<>>
    /\ alone = [r \in Reqs |-> FALSE]

NextRequests ==
    \/ \E m \in RequestMessages, l \in StoreLanguages, t \in RequestThreadIds :
          Start(1, [message |-> m, language |-> l, thread_id |-> t], MaxTurns)
    \/ LoadCheckpoint(1)
    \/ LoadRaises(1)
    \/ Invoke(1)
    \/ Put(1)
    \/ GetHistory("s1")
    \/ Restart

SpecRequests == InitRequests /\ [][NextRequests]_vars

(***************************************************************************)
(* The history endpoint over any stored record: message lists of any       *)
(* shape are put directly, read back through GET /chat/history, and time   *)
(* passes.                                                                 *)
(***************************************************************************)
HistoryMessages == {HumanMessage("Hi"), HumanMessage("Bye"), AIMessage("ok")}

RECURSIVE Histories(_)
Histories(n) ==
    IF n = 0 THEN {<<>>}
    ELSE Histories(n - 1) \cup
         {Append(l, m) : l \in {k \in Histories(n - 1) : Len(k) = n - 1},
                         m \in HistoryMessages}

NextHistory ==
    \/ \E l \in Histories(MaxStored) :
          DirectPut("s1", [messages |-> l, language |-> "English"])
    \/ GetHistory("s1")
    \/ GetHistoryRaises("s1")
    \/ Tick

SpecHistory == Init /\ [][NextHistory]_vars

(***************************************************************************)
(* Views of the state used by the properties below.                        *)
(***************************************************************************)
\* kind and content of each message of an in-memory list
Transcript(messages) ==
    [i \in 1..Len(messages) |-> <<messages[i].class, messages[i].content>>]

\* kind and content of each message dict of the object stored for sid
StoredTranscript(bucket, sid) ==
    IF _get_s3_key(sid) \in DOMAIN bucket
    THEN LET dicts == bucket[_get_s3_key(sid)].Body.state.messages
         IN  [i \in 1..Len(dicts) |-> <<dicts[i]._type, dicts[i].content>>]
    ELSE <<>>

\* content and role of each message of a history response
ContentsAndRoles(messages) ==
    [i \in 1..Len(messages) |-> <<messages[i].content, messages[i].role>>]

\* the role the history endpoint gives the kind of a stored message
RoleOf(kind) == IF kind = "HumanMessage" THEN "human" ELSE "assistant"

(***************************************************************************)
(* C1.  After n process_chat calls made one after the other on one session *)
(* id, none failing, the stored record holds exactly 2n messages, human    *)
(* then assistant, in request order: every completed call extends the      *)
(* stored list by its own human message and one assistant message, and a   *)
(* history read returns exactly the stored messages.                       *)
(***************************************************************************)
C1_Between ==
    (pc[1] = "idle" /\ ncalls > 0) =>
        LET stored == StoredTranscript(store, "s1")
            read == get_chat_history("s1", get("s1")).messages
        IN  /\ Len(stored) = 2 * ncalls
            /\ \A i \in 1..ncalls : /\ stored[2 * i - 1][1] = "HumanMessage"
                                    /\ stored[2 * i][1] = "AIMessage"
            /\ Len(read) = Len(stored)
            /\ \A j \in 1..Len(stored) : /\ read[j].content = stored[j][2]
                                         /\ read[j].role = RoleOf(stored[j][1])
            /\ (history.thread_id = "s1" /\ history.status # 500) =>
                   /\ history.status = 200
                   /\ ContentsAndRoles(history.messages) = ContentsAndRoles(read)

C1_Extends ==
    (pc[1] = "put" /\ pc'[1] = "idle") =>
        LET before == StoredTranscript(store, "s1")
            after == StoredTranscript(store', "s1")
        IN  /\ Len(after) = Len(before) + 2
            /\ SubSeq(after, 1, Len(before)) = before
            /\ after[Len(before) + 1] = <<"HumanMessage", request[1].message>>
            /\ after[Len(before) + 2][1] = "AIMessage"

C1_SequentialTranscript == [] C1_Between /\ [][C1_Extends]_vars

\* two calls have completed and a history read returned the four messages
C1_Witness ==
    /\ ncalls = 2
    /\ pc[1] = "idle"
    /\ Len(StoredTranscript(store, "s1")) = 4
    /\ history.thread_id = "s1"
    /\ history.status = 200
    /\ Len(history.messages) = 4

(***************************************************************************)
(* C2.  A lost update is reachable when two calls on one session id        *)
(* overlap: both answer 200, yet the stored record lacks the messages of   *)
(* one of them.  The record is always exactly what the last put wrote:     *)
(* each put that returns leaves as the record the putting call's own       *)
(* message list and language, whatever the record held before.             *)
(***************************************************************************)
C2_LastPutWins ==
    [][\A r \in Reqs :
          (pc[r] = "put" /\ response'[r].status = 200) =>
              /\ StoredTranscript(store', session_id[r]) = Transcript(Output(r))
              /\ store'[_get_s3_key(session_id[r])].Body.state.language
                     = request[r].language]_vars

\* both overlapping calls answered 200 on the one stored session, whose record
\* holds a single exchange
C2_Witness ==
    /\ ncalls = 2
    /\ response[1].status = 200
    /\ response[2].status = 200
    /\ DOMAIN store = {_get_s3_key("s1")}
    /\ Len(StoredTranscript(store, "s1")) = 2

(***************************************************************************)
(* C3.  A get for a session id returns exactly the state handed to the     *)
(* most recent put that succeeded for that id: put replaces the whole      *)
(* record, keeping neither messages nor language of an earlier one.        *)
(***************************************************************************)
C3_GetReturnsLastPut ==
    (checkpoint.op = "get" /\ ~checkpoint.raised) =>
        IF checkpoint.session_id \in DOMAIN last_put
        THEN checkpoint.value = last_put[checkpoint.session_id]
        ELSE DOMAIN checkpoint.value = {}

\* a get on s1 returned a French two-message state while s2 holds another record
C3_Witness ==
    /\ checkpoint.op = "get"
    /\ checkpoint.session_id = "s1"
    /\ ~checkpoint.raised
    /\ DOMAIN checkpoint.value # {}
    /\ checkpoint.value.language = "French"
    /\ Len(checkpoint.value.messages) = 2
    /\ "s2" \in DOMAIN last_put
    /\ last_put["s2"].language = "English"

(***************************************************************************)
(* C4.  A list of human and assistant messages written with put and read   *)
(* back with get has the same length, and position by position the same    *)
(* kind and the same content.                                              *)
(***************************************************************************)
C4_RoundTrip ==
    (/\ checkpoint.op = "get"
     /\ ~checkpoint.raised
     /\ checkpoint.session_id \in DOMAIN last_put) =>
        LET written == last_put[checkpoint.session_id].messages
            read == checkpoint.value.messages
        IN  /\ Len(read) = Len(written)
            /\ \A i \in 1..Len(written) :
                   /\ read[i].class = written[i].class
                   /\ read[i].content = written[i].content

\* an assistant message followed by a human message came back from get
C4_Witness ==
    /\ checkpoint.op = "get"
    /\ ~checkpoint.raised
    /\ DOMAIN checkpoint.value # {}
    /\ checkpoint.value.messages = <<AIMessage("ok"), HumanMessage("Hi")>>

(***************************************************************************)
(* C5.  With no record stored for a session id, get returns the absent     *)
(* checkpoint without raising, get_chat_history returns an empty message   *)
(* list with language "English", and the history endpoint answers 404.     *)
(***************************************************************************)
C5_AbsentRecord ==
    /\ \A sid \in HistoryIds :
           _get_s3_key(sid) \notin DOMAIN store => DOMAIN get(sid) = {}
    /\ (/\ history.thread_id # None
        /\ history.s3 # "error"
        /\ _get_s3_key(history.thread_id) \notin DOMAIN store) =>
           /\ history.status = 404
           /\ history.messages = <<>>
           /\ history.language = "English"

\* the history of s1 was asked while only another session is stored
C5_Witness ==
    /\ history.thread_id = "s1"
    /\ history.s3 = "NoSuchKey"
    /\ history.status = 404
    /\ DOMAIN store # {}

(***************************************************************************)
(* Views of the last completed exchange of the conversation on s1.         *)
(***************************************************************************)
\* the call has answered 200; no later call has started and no history was
\* read since
Replied ==
    /\ pc[1] = "idle"
    /\ response[1].status = 200
    /\ history = NoHistory
    /\ "s1" \in DOMAIN chat_histories
    /\ Len(chat_histories["s1"]) >= 2

\* the lower-cased text of the human message that was answered
Asked == lower(chat_histories["s1"][Len(chat_histories["s1"]) - 1].content)

\* the assistant message appended for it
Reply == Last(chat_histories["s1"])

\* a QA question, lower-cased, occurs in the message
QuestionOccurs(i, m) == In(lower(qa_pairs[i].question), m)

FirstQuestionOccurring(m) ==
    CHOOSE i \in 1..Len(qa_pairs) :
        /\ QuestionOccurs(i, m)
        /\ \A j \in 1..(i - 1) : ~QuestionOccurs(j, m)

\* a keyword of topic t occurs between spaces in the space-padded message
KeywordBetweenSpaces(t, m) ==
    LET padded == " " \o m \o " " IN
    \E k \in 1..Len(topic_keywords[t].keywords) :
        In(" " \o topic_keywords[t].keywords[k] \o " ", padded)

\* some QA question, lower-cased, contains the label of topic t
LabelOccurs(t) ==
    \E i \in 1..Len(qa_pairs) : In(topic_keywords[t].topic, lower(qa_pairs[i].question))

FirstPairWithLabel(t) ==
    qa_pairs[CHOOSE i \in 1..Len(qa_pairs) :
                /\ In(topic_keywords[t].topic, lower(qa_pairs[i].question))
                /\ \A j \in 1..(i - 1) :
                       ~In(topic_keywords[t].topic, lower(qa_pairs[j].question))]

(***************************************************************************)
(* C6.  When the lower-cased text of a QA question occurs in the           *)
(* lower-cased message, the assistant message appended is the exact answer *)
(* of the first such pair in table order, whatever keywords the message    *)
(* holds, and the response text is that answer as _format_response lays it *)
(* out.                                                                    *)
(***************************************************************************)
C6_ExactMatchReply ==
    Replied =>
        LET m == Asked IN
        (\E i \in 1..Len(qa_pairs) : QuestionOccurs(i, m)) =>
            LET answer == qa_pairs[FirstQuestionOccurring(m)].answer
            IN  /\ Reply.class = "AIMessage"
                /\ Reply.content = answer
                /\ response[1].response = _format_response(answer)

\* "refund policy" was asked of the loose table: the first pair's answer was
\* appended as it is and returned with its blank lines collapsed
C6_Witness ==
    /\ Replied
    /\ qa_pairs = LooseTable
    /\ Asked = "refund policy"
    /\ Reply.content = LooseTable[1].answer
    /\ response[1].response = "First.\n\nSecond."

\* C6 as stated: the reply returned equals the exact answer of the first pair
C6_ResponseIsExactAnswer ==
    Replied =>
        LET m == Asked IN
        (\E i \in 1..Len(qa_pairs) : QuestionOccurs(i, m)) =>
            response[1].response = qa_pairs[FirstQuestionOccurring(m)].answer

(***************************************************************************)
(* C7.  When no QA question occurs in the message and some topic keyword   *)
(* occurs in it between spaces, the reply is the answer of the first QA    *)
(* pair whose question contains the label of the first topic, in declared  *)
(* order, that has a keyword in the message and a label some question      *)
(* contains; when no such topic exists the reply is the refusal.           *)
(***************************************************************************)
C7_KeywordTopicReply ==
    Replied =>
        LET m == Asked
            matching == {t \in 1..Len(topic_keywords) : KeywordBetweenSpaces(t, m)}
            answering == {t \in matching : LabelOccurs(t)}
        IN  ((\A i \in 1..Len(qa_pairs) : ~QuestionOccurs(i, m)) /\ matching # {}) =>
                IF answering # {}
                THEN LET t == CHOOSE t \in answering : \A u \in answering : t <= u
                     IN  Reply.content = FirstPairWithLabel(t).answer
                ELSE Reply.content = REFUSAL

\* "I forgot how to pay" was asked of the sparse table: the password topic
\* matches first but no question holds its label, and the payment answer came
C7_Witness ==
    /\ Replied
    /\ qa_pairs = SparseTable
    /\ Asked = "i forgot how to pay"
    /\ KeywordBetweenSpaces(2, Asked)
    /\ ~LabelOccurs(2)
    /\ Reply.content = "Card."

\* C7 as stated: the answer belongs to the first topic with a keyword in the
\* message
C7_FirstMatchingTopicAnswers ==
    Replied =>
        LET m == Asked
            matching == {t \in 1..Len(topic_keywords) : KeywordBetweenSpaces(t, m)}
        IN  ((\A i \in 1..Len(qa_pairs) : ~QuestionOccurs(i, m)) /\ matching # {}) =>
                LET t == CHOOSE t \in matching : \A u \in matching : t <= u
                IN  /\ LabelOccurs(t)
                    /\ Reply.content = FirstPairWithLabel(t).answer

(***************************************************************************)
(* C8.  When no QA question occurs in the message and no topic keyword     *)
(* occurs in it between spaces, the reply is exactly the refusal string.   *)
(***************************************************************************)
C8_Refusal ==
    Replied =>
        LET m == Asked IN
        (/\ \A i \in 1..Len(qa_pairs) : ~QuestionOccurs(i, m)
         /\ \A t \in 1..Len(topic_keywords) : ~KeywordBetweenSpaces(t, m)) =>
        /\ Reply.content = "I can only answer questions about our business operations."
        /\ response[1].response
               = "I can only answer questions about our business operations."

\* "open?" holds the keyword open, but not between spaces: it was refused
C8_Witness ==
    /\ Replied
    /\ qa_pairs = KnowledgeBase
    /\ Asked = "open?"
    /\ response[1].response = REFUSAL

(***************************************************************************)
(* C9.  Two history reads of one thread id in a row, both answered by the  *)
(* store and with no write in between, return the same thread id, status,  *)
(* language and the same message contents and roles in the same order; the *)
(* timestamps are those of each read.                                      *)
(***************************************************************************)
C9_ReadsAgree ==
    [][(/\ history.thread_id # None
        /\ history.status # 500
        /\ history'.thread_id = history.thread_id
        /\ history'.status # 500) =>
           /\ history'.status = history.status
           /\ history'.language = history.language
           /\ ContentsAndRoles(history'.messages) = ContentsAndRoles(history.messages)]_vars

\* a second read in a row of the stored thread s1, made after the clock moved
C9_Witness ==
    /\ history.thread_id = "s1"
    /\ history.again
    /\ history.status = 200
    /\ now > store[_get_s3_key("s1")].LastModified
    /\ history.messages[1].timestamp = now

\* C9 as stated: the second read returns the same response, timestamps included
C9_ReadsIdentical ==
    [][(/\ history.thread_id # None
        /\ history.status # 500
        /\ history'.thread_id = history.thread_id
        /\ history'.status # 500) =>
           /\ history'.status = history.status
           /\ history'.language = history.language
           /\ history'.messages = history.messages]_vars

(***************************************************************************)
(* C10.  When the store's put fails after the reply was produced, the call *)
(* answers HTTP 500 and the stored record is left as it was; and when no   *)
(* other call on the same session id overlapped this one, the cache entry  *)
(* of the session holds the new human message followed by its reply, so    *)
(* the cache and the stored record differ.                                 *)
(***************************************************************************)
\* after the step, the cache entry of r's session holds r's human message
\* followed by the reply produced for it
CacheHoldsExchange(r) ==
    /\ session_id[r] \in DOMAIN chat_histories'
    /\ LET cached == chat_histories'[session_id[r]]
       IN  \E i \in 1..(Len(cached) - 1) :
               /\ cached[i] = HumanMessage(request[r].message)
               /\ cached[i + 1] = Last(Output(r))
               /\ cached[i + 1].class = "AIMessage"

\* after the step, the cache entry of r's session is not what the store holds
CacheDiffersFromStore(r) ==
    /\ session_id[r] \in DOMAIN chat_histories'
    /\ Transcript(chat_histories'[session_id[r]]) # StoredTranscript(store', session_id[r])

C10_PutFailure ==
    [][\A r \in Reqs :
          PutRaises(r) =>
              /\ response'[r].status = 500
              /\ store' = store
              /\ alone[r] => (CacheHoldsExchange(r) /\ CacheDiffersFromStore(r))]_vars

\* one call alone: it answered 500, nothing is stored, the cache holds the
\* human message and the reply
C10_Witness ==
    /\ ncalls = 1
    /\ response[1].status = 500
    /\ store = <<>>
    /\ "s1" \in DOMAIN chat_histories
    /\ Len(chat_histories["s1"]) = 2
    /\ chat_histories["s1"][2].class = "AIMessage"

\* C10 as stated: the cache holds the exchange and differs from the store
\* whenever the put fails
C10_CacheAlwaysHoldsExchange ==
    [][\A r \in Reqs :
          PutRaises(r) =>
              /\ response'[r].status = 500
              /\ store' = store
              /\ CacheHoldsExchange(r)
              /\ CacheDiffersFromStore(r)]_vars

(***************************************************************************)
(* C11.  A failure of the store's get other than not-found on the          *)
(* read-history path is not swallowed: get_chat_history re-raises it and   *)
(* the endpoint answers HTTP 500, with no transcript.                      *)
(***************************************************************************)
C11_ReadFailureSurfaces ==
    history.s3 = "error" =>
        /\ history.status = 500
        /\ history.messages = <<>>

\* the store holds the record of s1, its get failed, the client saw 500
C11_Witness ==
    /\ history.thread_id = "s1"
    /\ history.s3 = "error"
    /\ history.status = 500
    /\ _get_s3_key("s1") \in DOMAIN store

\* C11 as stated: the failure becomes an empty English transcript, not a 500
C11_ReadFailureSwallowed ==
    history.s3 = "error" =>
        /\ history.status # 500
        /\ history.messages = <<>>
        /\ history.language = "English"

(***************************************************************************)
(* C12.  As stated: the history of a session whose record was last written *)
(* by a call with language L carries language L, read from the record's    *)
(* metadata.                                                               *)
(***************************************************************************)
C12_HistoryLanguageIsWritten ==
    (history.thread_id = "s1" /\ history.status = 200) =>
        history.language = store[_get_s3_key("s1")].Body.metadata.language

(***************************************************************************)
(* C13.  process_chat uses the thread_id of the request as the session id  *)
(* when it is a non-empty string; with no thread_id, or with the empty     *)
(* string, it generates one: fourteen digits, a dash, eight hex digits.    *)
(***************************************************************************)
C13_SessionIdResolution ==
    \A r \in Reqs :
        pc[r] # "idle" =>
            IF request[r].thread_id # None /\ request[r].thread_id # ""
            THEN session_id[r] = request[r].thread_id
            ELSE /\ session_id[r] # request[r].thread_id
                 /\ Len(session_id[r]) = 23
                 /\ SubSeq(session_id[r], 15, 15) = "-"

\* a request with the empty thread_id runs under a generated session id
C13_Witness ==
    /\ pc[1] = "put"
    /\ request[1].thread_id = ""
    /\ Len(session_id[1]) = 23

\* C13 as stated: every supplied thread_id, the empty string included, is the
\* session id
C13_SuppliedIdIsUsed ==
    \A r \in Reqs :
        (pc[r] # "idle" /\ request[r].thread_id # None) =>
            session_id[r] = request[r].thread_id

(***************************************************************************)
(* C14.  Once a session id is in the cache it stays there for the life of  *)
(* the process, and every later process_chat call on it takes the cached   *)
(* list (the new human message is appended to that list) without asking    *)
(* the store, whatever was put, failed or left unstored in between.        *)
(***************************************************************************)
C14_NeverEvicted == DOMAIN chat_histories \subseteq DOMAIN chat_histories'

C14_HitAsksNoStore ==
    \A r \in Reqs :
        (pc[r] = "idle" /\ pc'[r] # "idle" /\ session_id'[r] \in DOMAIN chat_histories) =>
            /\ pc'[r] = "invoke"
            /\ state_in'[r] = Append(chat_histories[session_id'[r]],
                                     HumanMessage(request'[r].message))
            /\ chat_histories'[session_id'[r]] = state_in'[r]

C14_CacheIsKept == [][C14_NeverEvicted /\ C14_HitAsksNoStore]_vars

\* the put of the first call failed, nothing is stored, and the second call
\* runs on the cached exchange plus its own message
C14_Witness ==
    /\ ncalls = 2
    /\ pc[1] = "invoke"
    /\ session_id[1] = "s1"
    /\ store = <<>>
    /\ Len(state_in[1]) = 3

(***************************************************************************)
(* C15.  On a cache miss whose get returns, the list handed to             *)
(* process_chat holds the messages of the stored record, or nothing when   *)
(* no record exists, and the session id is in the cache afterwards         *)
(* (process_chat then appends the human message to that list).             *)
(***************************************************************************)
C15_MissLoadsRecord ==
    [][LoadCheckpoint(1) =>
          /\ session_id[1] \in DOMAIN chat_histories'
          /\ Transcript(chat_histories'[session_id[1]])
                 = StoredTranscript(store, session_id[1])
                       \o << <<"HumanMessage", request[1].message>> >>]_vars

\* after a restart the call on s1 missed the cache and loaded the stored exchange
C15_Witness ==
    /\ pc[1] = "invoke"
    /\ checkpoint.session_id = "s1"
    /\ checkpoint.op = "get"
    /\ ~checkpoint.raised
    /\ DOMAIN checkpoint.value # {}
    /\ Len(checkpoint.value.messages) = 2
    /\ session_id[1] = "s1"
    /\ "s1" \in DOMAIN chat_histories
    /\ Len(chat_histories["s1"]) = 3

(***************************************************************************)
(* C16.  A successful process_chat call returns the language of the        *)
(* request and the formatted content of the last message of the updated    *)
(* history: the same text but for whitespace, with no whitespace at either *)
(* end, paragraphs separated by exactly one blank line with no whitespace  *)
(* around it, and the content itself when it is already in that form.      *)
(***************************************************************************)
RECURSIVE WithoutWhitespace(_)
WithoutWhitespace(s) ==
    IF s = "" THEN ""
    ELSE IF Head(s) \in Whitespace THEN WithoutWhitespace(Tail(s))
    ELSE CharAt(s, 1) \o WithoutWhitespace(Tail(s))

Trimmed(s) ==
    s = "" \/ (CharAt(s, 1) \notin Whitespace /\ CharAt(s, Len(s)) \notin Whitespace)

IsFormatted(formatted, text) ==
    /\ WithoutWhitespace(formatted) = WithoutWhitespace(text)
    /\ Trimmed(formatted)
    /\ \A i \in 1..(Len(formatted) - 2) :
           SubSeq(formatted, i, i + 1) = "\n\n" =>
               CharAt(formatted, i + 2) \notin Whitespace
    /\ \A i \in 2..(Len(formatted) - 1) :
           SubSeq(formatted, i, i + 1) = "\n\n" =>
               CharAt(formatted, i - 1) \notin Whitespace
    /\ (Trimmed(text) /\ ~In("\n\n", text)) => formatted = text

C17_CleanupDeletesExactlyExpired ==
    [][\A d \in MaxAgeDays :
          Cleanup(d) =>
              \A key \in DOMAIN store :
                  IF now - store[key].LastModified > d * TicksPerDay
                  THEN key \notin DOMAIN store'
                  ELSE key \in DOMAIN store']_vars

(***************************************************************************)
(* C18.  The store changes only when a call at its persistence step        *)
(* answers 200, and then only the record of that call's session id: the    *)
(* record written carries the messages handed to the workflow (ending with *)
(* the new human message) followed by the reply, and the request's         *)
(* language.  A call reaches the persistence step once, from the workflow, *)
(* and leaves it answered; a call that answers 500 leaves the store as it  *)
(* was.                                                                    *)
(***************************************************************************)
C18_OnlyOwnRecordChanges ==
    store' # store =>
        \E r \in Reqs :
            /\ pc[r] = "put"
            /\ pc'[r] = "idle"
            /\ response'[r].status = 200
            /\ DOMAIN store' = DOMAIN store \cup {_get_s3_key(session_id[r])}
            /\ \A key \in DOMAIN store :
                   key # _get_s3_key(session_id[r]) => store'[key] = store[key]

C18_FullHistoryWritten ==
    \A r \in Reqs :
        (pc[r] = "put" /\ response'[r].status = 200) =>
            LET written == StoredTranscript(store', session_id[r])
                handed == Transcript(state_in[r])
            IN  /\ Len(written) >= Len(handed) + 1
                /\ SubSeq(written, 1, Len(handed)) = handed
                /\ handed[Len(handed)] = <<"HumanMessage", request[r].message>>
                /\ written[Len(handed) + 1][1] = "AIMessage"
                /\ store'[_get_s3_key(session_id[r])].Body.state.language
                       = request[r].language

C18_OnePutNoRetry ==
    \A r \in Reqs :
        /\ (pc[r] = "put" /\ pc'[r] # "put") => (pc'[r] = "idle" /\ response'[r].status # 0)
        /\ (pc[r] # "put" /\ pc'[r] = "put") => pc[r] = "invoke"
        /\ (pc[r] # "idle" /\ response'[r].status = 500) => store' = store

C18_PutOncePerSuccess ==
    [][C18_OnlyOwnRecordChanges /\ C18_FullHistoryWritten /\ C18_OnePutNoRetry]_vars

\* two calls, one after the other, both answered: the record holds both
\* exchanges and the language
C18_Witness ==
    /\ ncalls = 2
    /\ response[1].status = 200
    /\ response[2].status = 0
    /\ DOMAIN store = {_get_s3_key("s1")}
    /\ Len(StoredTranscript(store, "s1")) = 4
    /\ store[_get_s3_key("s1")].Body.state.language = "English"

(***************************************************************************)
(* C19.  When the store's get fails while a session is loaded, the call    *)
(* does not fail: the cache entry is bound to an empty list, to which the  *)
(* human message is appended, and the call goes on to the workflow.        *)
(***************************************************************************)
C19_LoadFailureIsSwallowed ==
    [][\A r \in Reqs :
          LoadRaises(r) =>
              /\ pc'[r] = "invoke"
              /\ response'[r].status # 500
              /\ session_id[r] \in DOMAIN chat_histories'
              /\ chat_histories'[session_id[r]] = <<HumanMessage(request[r].message)>>]_vars

\* two calls on s1, a restart between them: the second answered 200 and the
\* record holds its exchange alone, so its load of the first exchange failed
C19_Witness ==
    /\ ncalls = 2
    /\ pc[1] = "idle"
    /\ response[1].status = 200
    /\ DOMAIN store = {_get_s3_key("s1")}
    /\ Len(StoredTranscript(store, "s1")) = 2

(***************************************************************************)
(* C20.  As stated: every record written by process_chat alternates human  *)
(* and assistant messages, from a human message to an assistant message,   *)
(* after any sequence of calls, failed and overlapping ones included.      *)
(***************************************************************************)
C20_RecordsAlternate ==
    \A key \in DOMAIN store :
        LET dicts == store[key].Body.state.messages
        IN  /\ Len(dicts) % 2 = 0
            /\ \A i \in 1..Len(dicts) :
                   dicts[i]._type = IF i % 2 = 1 THEN "HumanMessage" ELSE "AIMessage"

\* a stored transcript alternates from a human message: human at the odd
\* places, assistant at the even ones (a last human message may be unpaired)
AlternatesFromHuman(stored) ==
    \A i \in 1..Len(stored) :
        stored[i][1] = IF i % 2 = 1 THEN "HumanMessage" ELSE "AIMessage"

(***************************************************************************)
(* C21.  When the message list stored for a thread alternates human and    *)
(* assistant messages from a human message, the transcript get_chat_history*)
(* returns has the length and order of the stored list, "human" at the odd *)
(* places and "assistant" at the even ones (counting from one), each entry *)
(* with the stored content, both entries of a pair with one timestamp; a   *)
(* last human message without a reply is returned on its own.              *)
(***************************************************************************)
C21_AlternatingTranscript ==
    [][GetHistory("s1") =>
          LET stored == StoredTranscript(store, "s1")
              msgs == history'.messages
          IN  AlternatesFromHuman(stored) =>
                  /\ Len(msgs) = Len(stored)
                  /\ \A i \in 1..Len(stored) :
                         /\ msgs[i].content = stored[i][2]
                         /\ msgs[i].role = IF i % 2 = 1 THEN "human" ELSE "assistant"
                         /\ (i % 2 = 1 /\ i + 1 <= Len(stored))
                                => msgs[i].timestamp = msgs[i + 1].timestamp]_vars

\* a read of a stored pair followed by an unpaired human message
C21_Witness ==
    /\ StoredTranscript(store, "s1")
           = << <<"HumanMessage", "Hi">>, <<"AIMessage", "ok">>, <<"HumanMessage", "Bye">> >>
    /\ history.thread_id = "s1"
    /\ history.status = 200
    /\ ContentsAndRoles(history.messages)
           = << <<"Hi", "human">>, <<"ok", "assistant">>, <<"Bye", "human">> >>
    /\ history.messages[1].timestamp = history.messages[2].timestamp

(***************************************************************************)
(* C22.  A history read, answered or failed, leaves every cache entry and  *)
(* the store as they were, and an answered read returns the transcript and *)
(* language reconstructed from the record stored for the thread, whatever  *)
(* the cache holds for it.                                                 *)
(***************************************************************************)
C22_ReadPathIgnoresCache ==
    [][\A t \in HistoryIds :
          /\ (GetHistory(t) \/ GetHistoryRaises(t))
                 => (chat_histories' = chat_histories /\ store' = store)
          /\ GetHistory(t)
                 => LET resp == get_chat_history(t, get(t))
                    IN  /\ history'.messages = resp.messages
                        /\ history'.language = resp.language
                        /\ (_get_s3_key(t) \notin DOMAIN store
                                => history'.messages = <<>>)]_vars

\* the first exchange is stored, the put of the second failed: the cache
\* holds both exchanges and the read shows the stored one
C22_Witness ==
    /\ \A r \in Reqs : pc[r] = "idle"
    /\ "s1" \in DOMAIN chat_histories
    /\ Len(chat_histories["s1"]) = 4
    /\ Len(StoredTranscript(store, "s1")) = 2
    /\ history.thread_id = "s1"
    /\ history.status = 200
    /\ ContentsAndRoles(history.messages)
           = [i \in 1..2 |-> <<StoredTranscript(store, "s1")[i][2],
                               RoleOf(StoredTranscript(store, "s1")[i][1])>>]

\* one transcript begins with the other
IsPrefix(short, long) ==
    Len(short) <= Len(long) /\ SubSeq(long, 1, Len(short)) = short

(***************************************************************************)
(* C23.  As stated: with no two calls overlapping, the message list stored *)
(* for a session before a successful process_chat call is a prefix of the  *)
(* list stored after it, also when the store's get failed or the service   *)
(* was restarted in between.                                               *)
(***************************************************************************)
C23_StoredTranscriptOnlyGrows ==
    [][Put(1) => IsPrefix(StoredTranscript(store, session_id[1]),
                          StoredTranscript(store', session_id[1]))]_vars

(***************************************************************************)
(* C24.  When the workflow of a call raises, the call answers 500, the     *)
(* store and the cache are left as they are: the human message the call    *)
(* appended stays in the cache entry (it is the entry's last message when  *)
(* no other call on the session overlapped).  A later call that finds the  *)
(* session cached hands the workflow the cached list, that message         *)
(* included, followed by its own human message.                            *)
(***************************************************************************)
C24_FailureStep ==
    \A r \in Reqs :
        InvokeRaises(r) =>
            /\ response'[r].status = 500
            /\ store' = store
            /\ chat_histories' = chat_histories
            /\ alone[r] =>
                   /\ session_id[r] \in DOMAIN chat_histories'
                   /\ Last(chat_histories'[session_id[r]])
                          = HumanMessage(request[r].message)

C24_NextRequestStep ==
    \A r \in Reqs :
        (pc[r] = "idle" /\ pc'[r] = "invoke") =>
            state_in'[r] = Append(chat_histories[session_id'[r]],
                                  HumanMessage(request'[r].message))

C25_TranscriptIsFaithful ==
    [][GetHistory("s1") =>
          LET stored == StoredTranscript(store, "s1")
          IN  ContentsAndRoles(history'.messages)
                  = [i \in 1..Len(stored) |-> <<stored[i][2], RoleOf(stored[i][1])>>]]_vars

\* the object stored for sid, if any, and the cache entry of sid, if any
RecordOf(bucket, sid) ==
    IF _get_s3_key(sid) \in DOMAIN bucket THEN <<bucket[_get_s3_key(sid)]>> ELSE <<>>

EntryOf(cache, sid) ==
    IF sid \in DOMAIN cache THEN <<cache[sid]>> ELSE <<>>

\* the session id of the call in slot r on a step it takes
ActingSession(r) == IF pc[r] = "idle" THEN session_id'[r] ELSE session_id[r]

(***************************************************************************)
(* C26.  On every step, a session id whose cache entry or stored record    *)
(* changes is the session id of the process_chat call taking the step.     *)
(* Steps of calls for other session ids, and history reads, leave both as  *)
(* they were, whether the call succeeds or fails and however the calls     *)
(* interleave.                                                             *)
(***************************************************************************)
C26_SessionIsolation ==
    [][\A B \in DOMAIN chat_histories \cup DOMAIN chat_histories' \cup {"s1"} :
          (\/ EntryOf(chat_histories', B) # EntryOf(chat_histories, B)
           \/ RecordOf(store', B) # RecordOf(store, B))
              => \E r \in Reqs : pc'[r] # pc[r] /\ ActingSession(r) = B]_vars

\* two sessions, each cached and stored, after one call on each
C26_Witness ==
    /\ \A r \in Reqs : pc[r] = "idle"
    /\ ncalls = 2
    /\ Cardinality(DOMAIN chat_histories) = 2
    /\ "s1" \in DOMAIN chat_histories
    /\ \A B \in DOMAIN chat_histories :
           /\ RecordOf(store, B) # <<>>
           /\ StoredTranscript(store, B) = Transcript(chat_histories[B])
    /\ \E B \in DOMAIN chat_histories :
           StoredTranscript(store, B) # StoredTranscript(store, "s1")

============================================================================
